---- MODULE Spec2Model ----
(***************************************************************************)
(* LifeMarket data layer: the validated schemas of domain/models.py        *)
(* (RateSpec union, GlobalInputs timeline resolver) as state machines.     *)
(*                                                                         *)
(* Numbers.  Ages are Python floats (IEEE-754 binary64).  Every age the    *)
(* resolver handles is a whole number of months plus the rounding error of *)
(* a few float operations, so a float is kept exactly as                   *)
(*      value = A/12 + B*u,      u = 2^-56 / 3   (1/12 = 2^54 * u)         *)
(* with A, B integers: A the age in months, B the accumulated rounding     *)
(* error.  Round53 rounds such a value to the nearest binary64 (ties to    *)
(* even); the float operations of the code are the exact operation         *)
(* followed by Round53.                                                    *)
(***************************************************************************)
EXTENDS Integers, Sequences, FiniteSets, TLC

None == "None"

\* ------------------------------------------------------------------ floats

Pow2(n) == IF n <= 0 THEN 1 ELSE 2^n

F(a, b) == [A |-> a, B |-> b]

FNeg(x) == F(-x.A, -x.B)

FIsZero(x) == x.A = 0 /\ x.B = 0

FIsNeg(x) == x.A < 0 \/ (x.A = 0 /\ x.B < 0)

\* x < y and x >= y on floats: |B| stays far below 2^54, so the order is
\* lexicographic on (A, B).
FLess(x, y) == x.A < y.A \/ (x.A = y.A /\ x.B < y.B)

FGeq(x, y) == ~FLess(x, y)

\* The binade of a positive value with A >= 1: the k with 2^k <= value < 2^(k+1).
RECURSIVE BinadeUp(_, _)
BinadeUp(a, k) == IF a >= 24 * Pow2(k) THEN BinadeUp(a, k + 1) ELSE k

RECURSIVE BinadeDown(_, _)
BinadeDown(a, k) == IF a * Pow2(k) < 12 THEN BinadeDown(a, k + 1) ELSE -k

BinadeOfMonths(a) == IF a >= 12 THEN BinadeUp(a, 0) ELSE BinadeDown(a, 0)

\* a/12 is exactly 2^k
IsPow2At(a, k) == IF k >= 0 THEN a = 12 * Pow2(k) ELSE a * Pow2(-k) = 12

\* A value just below a power of two lies in the binade below it.
BinadeAdjust(x, k) == IF IsPow2At(x.A, k) /\ x.B < 0 THEN k - 1 ELSE k

Binade(x) == BinadeAdjust(x, BinadeOfMonths(x.A))

\* Round a positive value to the 53-bit grid of its binade, ties to even.
\* The grid step is 2^-j = g units of u with j = 52 - binade, g = 3 * 2^(56-j);
\* the value's place in units of u is A * 2^54 + B, reduced modulo 2g to r2:
\* r2 % g is the distance above the grid point below, r2 >= g says that point
\* is an odd multiple of the step.
GridRemainder(x, j, g) ==
    (Pow2(57 - j) * ((x.A * (IF (j - 3) % 2 = 0 THEN 1 ELSE 2)) % 3) + x.B) % (2 * g)

RoundBy(x, g, r, odd) ==
    IF r = 0 THEN x
    ELSE IF 2 * r < g THEN F(x.A, x.B - r)
    ELSE IF 2 * r > g THEN F(x.A, x.B + (g - r))
    ELSE IF odd THEN F(x.A, x.B + (g - r))
    ELSE F(x.A, x.B - r)

RoundWith(x, g, r2) == RoundBy(x, g, r2 % g, r2 >= g)

RoundOnGrid(x, j) ==
    IF j > 56 THEN x
    ELSE RoundWith(x, 3 * Pow2(56 - j), GridRemainder(x, j, 3 * Pow2(56 - j)))

RoundPos(x) == IF x.A = 0 THEN x ELSE RoundOnGrid(x, 52 - Binade(x))

Round53(x) ==
    IF FIsZero(x) THEN x
    ELSE IF FIsNeg(x) THEN FNeg(RoundPos(FNeg(x)))
    ELSE RoundPos(x)

\* int -> float
FInt(n) == F(12 * n, 0)

\* m / 12.0
FDiv12(m) == Round53(F(m, 0))

FAdd(x, y) == Round53(F(x.A + y.A, x.B + y.B))

FSub(x, y) == Round53(F(x.A - y.A, x.B - y.B))

FMul12(x) == Round53(F(12 * x.A, 12 * x.B))

\* floor of a float
FloorDiv12(a) == IF a >= 0 THEN a \div 12 ELSE -((-a + 11) \div 12)

FloorAdjust(x, q) == IF x.A = 12 * q /\ x.B < 0 THEN q - 1 ELSE q

FFloor(x) == FloorAdjust(x, FloorDiv12(x.A))

\* int(x): truncation toward zero
FTrunc(x) == IF FIsNeg(x) THEN -FFloor(FNeg(x)) ELSE FFloor(x)

\* x % 1 (Python's float modulo; exact for x >= 0)
FMod1(x) == IF FIsNeg(x)
            THEN Round53(F(x.A - 12 * FFloor(x), x.B))
            ELSE F(x.A - 12 * FFloor(x), x.B)

\* ------------------------------------------------------------------ options

\* An optional value: <<>> is Python's None, <<x>> a present x.
NoVal == <<>>

Some(x) == <<x>>

IsNone(o) == o = <<>>

Val(o) == o[1]

\* ------------------------------------------------------------------ dates

Date(y, m, d) == [y |-> y, m |-> m, d |-> d]

IsLeap(y) == (y % 4 = 0 /\ y % 100 # 0) \/ y % 400 = 0

\* calendar.monthrange(year, month)[1]
DaysInMonth(y, m) ==
    IF m = 2 THEN (IF IsLeap(y) THEN 29 ELSE 28)
    ELSE IF m \in {4, 6, 9, 11} THEN 30 ELSE 31

\* date.__lt__
DateLess(a, b) ==
    \/ a.y < b.y
    \/ a.y = b.y /\ a.m < b.m
    \/ a.y = b.y /\ a.m = b.m /\ a.d < b.d

DateGeq(a, b) == ~DateLess(a, b)

\* relativedelta(years=, months=): _fix() carries |months| > 11 into years.
RelYM(years, months) ==
    IF months > 11
    THEN [years |-> years + months \div 12, months |-> months % 12]
    ELSE IF months < -11
    THEN [years |-> years - ((-months) \div 12), months |-> -((-months) % 12)]
    ELSE [years |-> years, months |-> months]

\* date + relativedelta: relativedelta.__radd__, the day clipped to the month's end.
ClipDay(year, month, day, dim) == Date(year, month, IF day < dim THEN day ELSE dim)

AddYM(year, m0, day) ==
    IF m0 > 12 THEN ClipDay(year + 1, m0 - 12, day, DaysInMonth(year + 1, m0 - 12))
    ELSE IF m0 < 1 THEN ClipDay(year - 1, m0 + 12, day, DaysInMonth(year - 1, m0 + 12))
    ELSE ClipDay(year, m0, day, DaysInMonth(year, m0))

AddRel(dt, rel) == AddYM(dt.y + rel.years, dt.m + rel.months, dt.d)

\* relativedelta._set_months: whole years and months, truncated toward zero.
SetMonths(n) ==
    IF n >= 0 THEN [years |-> n \div 12, months |-> n % 12]
    ELSE [years |-> -((-n) \div 12), months |-> -((-n) % 12)]

\* relativedelta(dt1, dt2): the whole months between dt2 and dt1, stepped toward
\* zero until dt2 + months does not pass dt1.
RECURSIVE MonthsBetween(_, _, _)
MonthsBetween(dt1, dt2, n) ==
    IF DateLess(dt1, dt2)
    THEN (IF DateLess(AddRel(dt2, SetMonths(n)), dt1)
          THEN MonthsBetween(dt1, dt2, n + 1) ELSE n)
    ELSE (IF DateLess(dt1, AddRel(dt2, SetMonths(n)))
          THEN MonthsBetween(dt1, dt2, n - 1) ELSE n)

RelDelta(dt1, dt2) ==
    SetMonths(MonthsBetween(dt1, dt2, (dt1.y - dt2.y) * 12 + (dt1.m - dt2.m)))

\* ------------------------------------------------------------ GlobalInputs

MaxAgeYears == 120

MaxAgeMonths == 11

RetirementAge == 67

LifespanAge == 80

\* years + months / 12.0
AgeOf(years, months) == FAdd(FInt(years), FDiv12(months))

\* Field(None, ge = 0, le = 120) and Field(None, ge = 0, le = 11) on optional ints
OptIntInRange(o, lo, hi) == IsNone(o) \/ (Val(o) >= lo /\ Val(o) <= hi)

\* The per-field validation pydantic runs before the model validator.
FieldsValid(inp) ==
    /\ inp.timeline_mode \in {"date", "age"}
    /\ OptIntInRange(inp.start_age_years, 0, MaxAgeYears)
    /\ OptIntInRange(inp.start_age_months, 0, MaxAgeMonths)
    /\ OptIntInRange(inp.end_age_years, 0, MaxAgeYears)
    /\ OptIntInRange(inp.end_age_months, 0, MaxAgeMonths)
    /\ inp.end_option \in {"retirement", "lifespan", None}
    /\ inp.reporting_deflator \in {"none", "fixed_rate", "provider"}

\* age_change.years + (age_change.months / 12.0)
AgeFromDelta(age_change) == FAdd(FInt(age_change.years), FDiv12(age_change.months))

\* current_age from birth_date when it is not provided
\* Mutant: a supplied current_age is overwritten whenever birth_date is there.
DeriveCurrentAgeAlways(self, today) ==
    IF ~IsNone(self.birth_date)
    THEN [self EXCEPT !.current_age =
             Some(AgeFromDelta(RelDelta(today, Val(self.birth_date))))]
    ELSE self

DeriveCurrentAge(self, today) ==
    IF ~IsNone(self.birth_date) /\ IsNone(self.current_age)
    THEN [self EXCEPT !.current_age =
             Some(AgeFromDelta(RelDelta(today, Val(self.birth_date))))]
    ELSE self

\* Mutant: months given without years are added to the current age.
ActualStartAgeMonthsAlone(self) ==
    IF ~IsNone(self.start_age_years) /\ ~IsNone(self.start_age_months)
    THEN AgeOf(Val(self.start_age_years), Val(self.start_age_months))
    ELSE IF ~IsNone(self.start_age_years)
    THEN FInt(Val(self.start_age_years))
    ELSE IF ~IsNone(self.start_age_months)
    THEN FAdd(Val(self.current_age), FDiv12(Val(self.start_age_months)))
    ELSE Val(self.current_age)

ActualStartAge(self) ==
    IF ~IsNone(self.start_age_years) /\ ~IsNone(self.start_age_months)
    THEN AgeOf(Val(self.start_age_years), Val(self.start_age_months))
    ELSE IF ~IsNone(self.start_age_years)
    THEN FInt(Val(self.start_age_years))
    ELSE Val(self.current_age)

ActualEndAge(self) ==
    IF ~IsNone(self.end_age_years) /\ ~IsNone(self.end_age_months)
    THEN AgeOf(Val(self.end_age_years), Val(self.end_age_months))
    ELSE IF ~IsNone(self.end_age_years)
    THEN FInt(Val(self.end_age_years))
    ELSE IF self.end_option = "retirement"
    THEN FInt(RetirementAge)
    ELSE FInt(LifespanAge)

\* relativedelta(years = int(d), months = int((d % 1) * 12))
AgeOffset(d) == RelYM(FTrunc(d), FTrunc(FMul12(FMod1(d))))

Raised(kind) == [err |-> kind, obj |-> NoVal]

Returned(self) == [err |-> "", obj |-> Some(self)]

\* Mutant: the message's "or" taken literally, only both missing is an error.
AgeInputsMissingBoth(self) == IsNone(self.birth_date) /\ IsNone(self.current_age)

\* "age-based timeline requires current age or birthdate"
AgeInputsMissing(self) == IsNone(self.birth_date) \/ IsNone(self.current_age)

\* actual_start_age >= actual_end_age
StartNotBeforeEnd(actual_start_age, actual_end_age) ==
    FGeq(actual_start_age, actual_end_age)

\* Mutant: the check against the current age is dropped.
StartBeforeCurrentDropped(actual_start_age, current_age) == FALSE

\* actual_start_age < self.current_age
StartBeforeCurrent(actual_start_age, current_age) ==
    FLess(actual_start_age, current_age)

\* "Date-based timeline requires both a start_date and end_date"
DatesMissing(self) == IsNone(self.start_date) \/ IsNone(self.end_date)

\* Mutant: > in place of >=, an empty window passes.
DatesOutOfOrderStrict(start_date, end_date) == DateLess(end_date, start_date)

\* self.start_date >= self.end_date
DatesOutOfOrder(start_date, end_date) == DateGeq(start_date, end_date)

\* The final check on the resolved window.
FinalCheck(self) ==
    IF DatesOutOfOrder(Val(self.start_date), Val(self.end_date))
    THEN Raised("end_not_after_start")
    ELSE Returned(self)

\* Mutant: dates the caller passed are kept in age mode.
AgeWindowKeepsSupplied(self, today, years_to_start, years_to_end) ==
    FinalCheck([self EXCEPT
        !.start_date = IF IsNone(self.start_date)
                       THEN Some(AddRel(today, AgeOffset(years_to_start)))
                       ELSE self.start_date,
        !.end_date = IF IsNone(self.end_date)
                     THEN Some(AddRel(today, AgeOffset(years_to_end)))
                     ELSE self.end_date])

\* The dates computed from the two age deltas, then the final check.
AgeWindow(self, today, years_to_start, years_to_end) ==
    FinalCheck([self EXCEPT
        !.start_date = Some(AddRel(today, AgeOffset(years_to_start))),
        !.end_date = Some(AddRel(today, AgeOffset(years_to_end)))])

AgeChecks(self, today, actual_start_age, actual_end_age) ==
    IF StartNotBeforeEnd(actual_start_age, actual_end_age)
    THEN Raised("start_age_not_before_end_age")
    ELSE IF StartBeforeCurrent(actual_start_age, Val(self.current_age))
    THEN Raised("start_age_before_current_age")
    ELSE AgeWindow(self, today,
                   FSub(actual_start_age, Val(self.current_age)),
                   FSub(actual_end_age, Val(self.current_age)))

AgeBased(self, today) ==
    IF AgeInputsMissing(self) THEN Raised("age_inputs_missing")
    ELSE AgeChecks(self, today, ActualStartAge(self), ActualEndAge(self))

\* Mutant: the final ordering check is not reached in date mode.
DateBasedUnordered(self) ==
    IF DatesMissing(self) THEN Raised("dates_missing") ELSE Returned(self)

DateBased(self) ==
    IF DatesMissing(self) THEN Raised("dates_missing") ELSE FinalCheck(self)

ResolveTimeline(self, today) ==
    IF self.timeline_mode = "age" THEN AgeBased(self, today) ELSE DateBased(self)

validate_and_calculate_timeline(self, today) ==
    ResolveTimeline(DeriveCurrentAge(self, today), today)

\* GlobalInputs(**inp): field validation, then the model validator (mode "after").
NewGlobalInputs(inp, today) ==
    IF ~FieldsValid(inp) THEN Raised("field")
    ELSE validate_and_calculate_timeline(inp, today)

\* The validator's local variables once both effective ages are computed
\* (age mode, past the missing-input check).
AgeLocals(self) ==
    [actual_start_age |-> ActualStartAge(self),
     actual_end_age |-> ActualEndAge(self)]

LocalsOf(self) ==
    IF self.timeline_mode = "age" /\ ~AgeInputsMissing(self)
    THEN Some(AgeLocals(self))
    ELSE NoVal

ValidatorLocals(inp, today) ==
    IF ~FieldsValid(inp) THEN NoVal
    ELSE LocalsOf(DeriveCurrentAge(inp, today))

\* ---------------------------------------------------------------- RateSpec

\* Rates are decimals kept in thousandths: 0.03 is 30, -1.0 is -1000.
AnnualMin == -1000

AnnualMax == 2000

AnnualDefault == 30

Tags == {"value", "schedule", "provider"}

\* kind: Literal[tag] = tag
KindValid(kw, tag) == IsNone(kw.kind) \/ Val(kw.kind) = tag

\* Mutant: gt / lt in place of ge / le.
AnnualInRangeStrict(annual) == annual > AnnualMin /\ annual < AnnualMax

\* Field(0.03, ge = -1.0, le = 2.0)
AnnualInRange(annual) == annual >= AnnualMin /\ annual <= AnnualMax

\* Mutant: min_length = 1 on source.
SourceNonEmpty(source) == source # ""

\* source: str = Field(...): any string
SourceValid(source) == source \in STRING

\* RateValue(**kw); keys that are not fields of the class are ignored.
NewRateValue(kw) ==
    IF ~KindValid(kw, "value") THEN Raised("literal_error")
    ELSE IF IsNone(kw.annual)
    THEN Returned([kind |-> "value", annual |-> AnnualDefault])
    ELSE IF AnnualInRange(Val(kw.annual))
    THEN Returned([kind |-> "value", annual |-> Val(kw.annual)])
    ELSE Raised("annual_out_of_range")

\* RateSchedule(**kw)
NewRateSchedule(kw) ==
    IF ~KindValid(kw, "schedule") THEN Raised("literal_error")
    ELSE IF IsNone(kw.by_year) THEN Raised("missing")
    ELSE Returned([kind |-> "schedule", by_year |-> Val(kw.by_year)])

\* RateProvider(**kw)
NewRateProvider(kw) ==
    IF ~KindValid(kw, "provider") THEN Raised("literal_error")
    ELSE IF IsNone(kw.source) THEN Raised("missing")
    ELSE IF ~SourceValid(Val(kw.source)) THEN Raised("string_invalid")
    ELSE Returned([kind |-> "provider", source |-> Val(kw.source),
                   param |-> IF IsNone(kw.param) THEN {} ELSE Val(kw.param)])

\* The shape a known tag selects.
NewTagged(tag, kw) ==
    IF tag = "value" THEN NewRateValue(kw)
    ELSE IF tag = "schedule" THEN NewRateSchedule(kw)
    ELSE NewRateProvider(kw)

\* Mutant: an untagged union, the first shape that validates wins.
NewRateSpecUntagged(kw) ==
    IF NewRateValue(kw).err = "" /\ ~IsNone(kw.annual) THEN NewRateValue(kw)
    ELSE IF NewRateSchedule(kw).err = "" THEN NewRateSchedule(kw)
    ELSE IF NewRateProvider(kw).err = "" THEN NewRateProvider(kw)
    ELSE Raised("no_shape")

\* RateSpec = Annotated[RateValue | RateSchedule | RateProvider,
\*                      Field(discriminator = "kind")]
NewRateSpec(kw) ==
    IF IsNone(kw.kind) THEN Raised("union_tag_not_found")
    ELSE IF Val(kw.kind) \notin Tags THEN Raised("union_tag_invalid")
    ELSE NewTagged(Val(kw.kind), kw)

\* The serialized form: every key a rate spec can carry, present or absent.
Wire(kind, annual, by_year, source, param) ==
    [kind |-> kind, annual |-> annual, by_year |-> by_year,
     source |-> source, param |-> param]

\* Mutant: model_dump(exclude_defaults = True) drops kind, which equals its default.
model_dump_exclude_defaults(obj) ==
    IF "annual" \in DOMAIN obj
    THEN Wire(NoVal, Some(obj.annual), NoVal, NoVal, NoVal)
    ELSE IF "by_year" \in DOMAIN obj
    THEN Wire(NoVal, NoVal, Some(obj.by_year), NoVal, NoVal)
    ELSE Wire(NoVal, NoVal, NoVal, Some(obj.source), Some(obj.param))

\* BaseModel.model_dump(): the fields of the object's own class, kind included.
model_dump(obj) ==
    IF "annual" \in DOMAIN obj
    THEN Wire(Some(obj.kind), Some(obj.annual), NoVal, NoVal, NoVal)
    ELSE IF "by_year" \in DOMAIN obj
    THEN Wire(Some(obj.kind), NoVal, Some(obj.by_year), NoVal, NoVal)
    ELSE Wire(Some(obj.kind), NoVal, NoVal, Some(obj.source), Some(obj.param))

\* The four entry points: the three classes and the union.
Validate(cls, kw) ==
    IF cls = "RateValue" THEN NewRateValue(kw)
    ELSE IF cls = "RateSchedule" THEN NewRateSchedule(kw)
    ELSE IF cls = "RateProvider" THEN NewRateProvider(kw)
    ELSE NewRateSpec(kw)

\* --- RentInputs (amounts in whole currency units, counts, fractions and rates
\* --- in thousandths)

MaxRoommates == 10

PercentMax == 1000

RentGrowthDefault == 50

InsuranceGrowthDefault == 30

UtilitiesGrowthDefault == 25

\* base_monthly_rent: PositiveFloat = Field(...): required and greater than 0.
BaseRentValid(v) == ~IsNone(v) /\ Val(v) > 0

\* A field with a default: the given value, or the default when absent.
Defaulted(v, default) == IF IsNone(v) THEN default ELSE Val(v)

\* An int field (lax mode): a number with no fractional part, here a whole
\* number of thousands.
IsWhole(n) == n % 1000 = 0

RoommatesValid(v) ==
    IsNone(v) \/ (IsWhole(Val(v)) /\ Val(v) >= 0 /\ Val(v) <= MaxRoommates * 1000)

\* Mutant: lt in place of le, roommates cannot pay the whole rent.
PercentExclusive(v) == IsNone(v) \/ (Val(v) >= 0 /\ Val(v) < PercentMax)

PercentValid(v) == IsNone(v) \/ (Val(v) >= 0 /\ Val(v) <= PercentMax)

NonNegativeOrAbsent(v) == IsNone(v) \/ Val(v) >= 0

\* A growth field: RateSpec, decoded by its tag when given.
GrowthValid(v) == IsNone(v) \/ NewRateSpec(Val(v)).err = ""

\* Mutant: one default growth rate shared by the three fields.
GrowthSharedDefault(v, default) ==
    IF IsNone(v) THEN [kind |-> "value", annual |-> RentGrowthDefault]
    ELSE Val(NewRateSpec(Val(v)).obj)

\* default_factory=lambda: RateValue(annual=default) when the field is absent.
GrowthOf(v, default) ==
    IF IsNone(v) THEN [kind |-> "value", annual |-> default]
    ELSE Val(NewRateSpec(Val(v)).obj)

RentFieldsValid(kw) ==
    /\ BaseRentValid(kw.base_monthly_rent)
    /\ RoommatesValid(kw.roommates)
    /\ PercentValid(kw.roommate_contribution_percent)
    /\ NonNegativeOrAbsent(kw.renters_insurance_monthly)
    /\ NonNegativeOrAbsent(kw.utilities_monthly)
    /\ GrowthValid(kw.rent_growth)
    /\ GrowthValid(kw.insurance_growth)
    /\ GrowthValid(kw.utilities_growth)

\* RentInputs(**kw)
NewRentInputs(kw) ==
    IF ~RentFieldsValid(kw) THEN Raised("field")
    ELSE Returned([base_monthly_rent |-> Val(kw.base_monthly_rent),
                   roommates |-> Defaulted(kw.roommates, 0) \div 1000,
                   roommate_contribution_percent |->
                       Defaulted(kw.roommate_contribution_percent, 0),
                   renters_insurance_monthly |->
                       Defaulted(kw.renters_insurance_monthly, 0),
                   utilities_monthly |-> Defaulted(kw.utilities_monthly, 0),
                   rent_growth |-> GrowthOf(kw.rent_growth, RentGrowthDefault),
                   insurance_growth |->
                       GrowthOf(kw.insurance_growth, InsuranceGrowthDefault),
                   utilities_growth |->
                       GrowthOf(kw.utilities_growth, UtilitiesGrowthDefault)])

\* --- profile metric groups (amounts in whole currency units)

HousingKind == {"none", "rent", "mortgage"}

HealthPayer == {"none", "self_pay", "parents"}

CarStatus == {"none", "paid_off", "parents_paying", "monthly_payment"}

MinMilesPerGallon == 1

\* An enum field with a default: absent, or one of the members.
EnumValid(v, members) == IsNone(v) \/ Val(v) \in members

\* Optional[float] = Field(default = None, ge = low)
OptAtLeast(v, low) == IsNone(v) \/ Val(v) >= low

HousingFieldsValid(kw) ==
    /\ EnumValid(kw.housing_kind, HousingKind)
    /\ OptAtLeast(kw.housing_payment_monthly, 0)

check_housing_payment(self) ==
    IF /\ self.housing_kind \in {"rent", "mortgage"}
       /\ \/ IsNone(self.housing_payment_monthly)
          \/ Val(self.housing_payment_monthly) <= 0
    THEN Raised("payment_required")
    ELSE Returned(self)

\* HousingMetrics(**kw)
NewHousingMetrics(kw) ==
    IF ~HousingFieldsValid(kw) THEN Raised("field")
    ELSE check_housing_payment(
             [housing_kind |-> Defaulted(kw.housing_kind, "rent"),
              housing_payment_monthly |-> kw.housing_payment_monthly,
              has_renters_insurance |-> kw.has_renters_insurance])

HealthFieldsValid(kw) ==
    /\ EnumValid(kw.payer, HealthPayer)
    /\ OptAtLeast(kw.health_premium_monthly, 0)

\* Mutant: < in place of <=, a premium of 0 passes under self_pay.
check_health_payment_zero_allowed(self) ==
    IF /\ self.payer = "self_pay"
       /\ \/ IsNone(self.health_premium_monthly)
          \/ Val(self.health_premium_monthly) < 0
    THEN Raised("payment_required")
    ELSE Returned(self)

check_health_payment(self) ==
    IF /\ self.payer = "self_pay"
       /\ \/ IsNone(self.health_premium_monthly)
          \/ Val(self.health_premium_monthly) <= 0
    THEN Raised("payment_required")
    ELSE Returned(self)

\* HealthInsuranceMetrics(**kw)
NewHealthInsuranceMetrics(kw) ==
    IF ~HealthFieldsValid(kw) THEN Raised("field")
    ELSE check_health_payment(
             [payer |-> Defaulted(kw.payer, "parents"),
              health_premium_monthly |-> kw.health_premium_monthly])

CarFieldsValid(kw) ==
    /\ EnumValid(kw.status, CarStatus)
    /\ OptAtLeast(kw.monthly_car_payment, 0)
    /\ OptAtLeast(kw.avg_price_per_gallon, 0)
    /\ OptAtLeast(kw.miles_per_month, 0)
    /\ OptAtLeast(kw.miles_per_gallon, MinMilesPerGallon)

check_car_payment(self) ==
    IF /\ self.status = "monthly_payment"
       /\ \/ IsNone(self.monthly_car_payment)
          \/ Val(self.monthly_car_payment) <= 0
    THEN Raised("payment_required")
    ELSE Returned(self)

\* CarMetrics(**kw)
NewCarMetrics(kw) ==
    IF ~CarFieldsValid(kw) THEN Raised("field")
    ELSE check_car_payment(
             [status |-> Defaulted(kw.status, "parents_paying"),
              monthly_car_payment |-> kw.monthly_car_payment,
              avg_price_per_gallon |-> kw.avg_price_per_gallon,
              miles_per_month |-> kw.miles_per_month,
              miles_per_gallon |-> kw.miles_per_gallon])

\* The metric group a class name constructs.
NewMetrics(cls, kw) ==
    IF cls = "HousingMetrics" THEN NewHousingMetrics(kw)
    ELSE IF cls = "HealthInsuranceMetrics" THEN NewHealthInsuranceMetrics(kw)
    ELSE NewCarMetrics(kw)

\* --- the profile store: JSON files, one per user, written through a
\* --- temporary file that is moved over the target

\* The exceptions errors.py defines.
ErrorClasses == {"ProfileStoreError", "ProfileCorrupt", "ProfileWriteFailed"}

\* from .errors import (ProfileNotFound, ProfileCorrupt, ProfileWriteFailed,)
StoreImports == {"ProfileNotFound", "ProfileCorrupt", "ProfileWriteFailed"}

\* What a caller sees when the store raises `name`: the exception of that
\* name, or the import failure when errors.py does not define it.
StoreError(name) == IF name \in ErrorClasses THEN name ELSE "ImportError"

\* A file: the serialized profile, whole or cut short.
File(written, data) == [written |-> written, data |-> data]

\* Mutant: has_renters_insurance is left out of the file.
DumpProfileLossy(profile) ==
    [housing_kind |-> Some(profile.housing_kind),
     housing_payment_monthly |-> profile.housing_payment_monthly,
     has_renters_insurance |-> NoVal]

\* The keys and values written for a profile.
DumpProfile(profile) ==
    [housing_kind |-> Some(profile.housing_kind),
     housing_payment_monthly |-> profile.housing_payment_monthly,
     has_renters_insurance |-> profile.has_renters_insurance]

\* Reading a file back: it must be whole and must validate.
ParseProfile(file) ==
    IF file.written = "full" /\ NewHousingMetrics(file.data).err = ""
    THEN NewHousingMetrics(file.data)
    ELSE Raised(StoreError("ProfileCorrupt"))

\* The name of a saver's temporary file.
TempName(s) == <<"tmp1", "tmp2", "tmp3", "tmp4">>[s]

\* Mutant: the text is written straight into the user's file.
WriteInPlace(s, user_id) == user_id

\* Where a save writes before the swap: its own temporary file.
WritePath(s, user_id) == TempName(s)

\* os.replace(src, dst): dst takes the content of src in one step.
Replace(files, src, dst) ==
    IF src = dst THEN files
    ELSE [files EXCEPT ![dst] = files[src], ![src] = NoVal]

\* A result of a store operation, as the caller sees it.
Op(op, user_id, err, result) ==
    [op |-> op, user |-> user_id, err |-> err, result |-> result]

\* --- the inputs the model draws from

Todays == {Date(2025, 1, 31), Date(2024, 2, 29)}

BirthDates == {NoVal, Some(Date(1994, 6, 15)), Some(Date(2026, 3, 1))}

CurrentAges == {NoVal, Some(AgeOf(30, 7)), Some(FInt(-5))}

StartYears == {NoVal, Some(30), Some(35), Some(121)}

StartMonths == {NoVal, Some(7), Some(12)}

EndYears == {NoVal, Some(35), Some(67)}

EndMonths == {NoVal, Some(8)}

EndOptions == {"retirement", "lifespan", None}

GivenDates == {NoVal, Some(Date(2025, 3, 1)), Some(Date(2030, 3, 1))}

Deflators == {"none", "fixed_rate"}

GIInputs ==
    [birth_date : BirthDates, current_age : CurrentAges,
     timeline_mode : {"date", "age"},
     start_age_years : StartYears, start_age_months : StartMonths,
     end_age_years : EndYears, end_age_months : EndMonths,
     end_option : EndOptions,
     start_date : GivenDates, end_date : GivenDates,
     reporting_deflator : Deflators]

Classes == {"RateValue", "RateSchedule", "RateProvider", "RateSpec"}

WireKinds == {NoVal, Some("value"), Some("schedule"), Some("provider"), Some("fixed")}

WireAnnuals == {NoVal, Some(AnnualMin - 1), Some(AnnualMin), Some(50),
                Some(AnnualMax), Some(AnnualMax + 1)}

\* by_year: Dict[int, float] as a set of <<year, rate>> pairs
WireSchedules == {NoVal, Some({}), Some({<<2020, 40>>, <<2022, 35>>})}

WireSources == {NoVal, Some(""), Some("cpi")}

\* param: Dict[str, Any] as a set of <<key, value>> pairs
WireParams == {NoVal, Some({}), Some({<<"region", "us">>})}

Wires ==
    [kind : WireKinds, annual : WireAnnuals, by_year : WireSchedules,
     source : WireSources, param : WireParams]

RentAmounts == {NoVal, Some(-1000), Some(0), Some(2000)}

RoommateCounts == {NoVal, Some(-1000), Some(0), Some(2500), Some(MaxRoommates * 1000),
                   Some((MaxRoommates + 1) * 1000)}

Percents == {NoVal, Some(-100), Some(500), Some(PercentMax), Some(1500)}

InsuranceAmounts == {NoVal, Some(-10), Some(25)}

UtilityAmounts == {NoVal, Some(-50), Some(0)}

RentGrowths ==
    {NoVal,
     Some(Wire(Some("value"), Some(70), NoVal, NoVal, NoVal)),
     Some(Wire(Some("value"), Some(AnnualMax + 1), NoVal, NoVal, NoVal)),
     Some(Wire(Some("provider"), NoVal, NoVal, Some("cpi"), NoVal))}

OtherGrowths ==
    {NoVal,
     Some(Wire(Some("value"), Some(40), NoVal, NoVal, NoVal)),
     Some(Wire(Some("schedule"), NoVal, Some({<<2026, 35>>}), NoVal, NoVal)),
     Some(Wire(Some("fixed"), Some(40), NoVal, NoVal, NoVal))}

RentKwargs ==
    [base_monthly_rent : RentAmounts, roommates : RoommateCounts,
     roommate_contribution_percent : Percents,
     renters_insurance_monthly : InsuranceAmounts,
     utilities_monthly : UtilityAmounts,
     rent_growth : RentGrowths, insurance_growth : OtherGrowths,
     utilities_growth : OtherGrowths]

Payments == {NoVal, Some(-5), Some(0), Some(1200)}

Flags == {NoVal, Some(TRUE), Some(FALSE)}

FuelPrices == {NoVal, Some(-1), Some(4)}

Mileages == {NoVal, Some(0), Some(30)}

HousingKwargs ==
    [housing_kind : {NoVal, Some("own")} \cup {Some(k) : k \in HousingKind},
     housing_payment_monthly : Payments, has_renters_insurance : Flags]

HealthKwargs ==
    [payer : {NoVal, Some("employer")} \cup {Some(k) : k \in HealthPayer},
     health_premium_monthly : Payments]

CarKwargs ==
    [status : {NoVal, Some("leased")} \cup {Some(k) : k \in CarStatus},
     monthly_car_payment : Payments, avg_price_per_gallon : FuelPrices,
     miles_per_month : {NoVal, Some(800)}, miles_per_gallon : Mileages]

\* A metric group to construct: the class and its keyword arguments.
MetricCalls ==
    ({"HousingMetrics"} \X HousingKwargs)
      \cup ({"HealthInsuranceMetrics"} \X HealthKwargs)
      \cup ({"CarMetrics"} \X CarKwargs)

\* How many savers run at once.
NumSavers == 2

Savers == 1..NumSavers

UserIds == {"ann", "bob"}

Paths == UserIds \cup {TempName(s) : s \in Savers}

\* The profiles callers save: validated objects.
SaveProfiles ==
    {Val(NewHousingMetrics(kw).obj) :
        kw \in {[housing_kind |-> Some("rent"), housing_payment_monthly |-> Some(1200),
                 has_renters_insurance |-> Some(TRUE)],
                [housing_kind |-> Some("none"), housing_payment_monthly |-> NoVal,
                 has_renters_insurance |-> NoVal]}}

\* A file somebody else left: whole JSON that is not a valid profile.
InvalidFile ==
    File("full", [housing_kind |-> Some("rent"), housing_payment_monthly |-> NoVal,
                  has_renters_insurance |-> NoVal])

\* How many attribute assignments a consumer makes on one object.
MaxAssign == 1

VARIABLES giPc, giIn, giToday, giObj, giErr, giAssigned, giLocals,
          rsPc, rsCls, rsWire, rsObj, rsErr, rsPrev,
          riPc, riIn, riObj, riErr,
          pmPc, pmCls, pmIn, pmObj, pmErr,
          fs, svPc, svUser, svArg, stSaved, stLast

giVars == <<giPc, giIn, giToday, giObj, giErr, giAssigned, giLocals>>

rsVars == <<rsPc, rsCls, rsWire, rsObj, rsErr, rsPrev>>

riVars == <<riPc, riIn, riObj, riErr>>

pmVars == <<pmPc, pmCls, pmIn, pmObj, pmErr>>

stVars == <<fs, svPc, svUser, svArg, stSaved, stLast>>

vars == <<giPc, giIn, giToday, giObj, giErr, giAssigned, giLocals,
          rsPc, rsCls, rsWire, rsObj, rsErr, rsPrev,
          riPc, riIn, riObj, riErr,
          pmPc, pmCls, pmIn, pmObj, pmErr,
          fs, svPc, svUser, svArg, stSaved, stLast>>

\* What an operation on one component leaves alone: every other component.
giRest == <<rsVars, riVars, pmVars, stVars>>

rsRest == <<giVars, riVars, pmVars, stVars>>

riRest == <<giVars, rsVars, pmVars, stVars>>

pmRest == <<giVars, rsVars, riVars, stVars>>

stRest == <<giVars, rsVars, riVars, pmVars>>

\* No GlobalInputs is under construction.
GIOff ==
    /\ giPc = "off"
    /\ giIn = NoVal
    /\ giToday = NoVal
    /\ giObj = NoVal
    /\ giErr = ""
    /\ giAssigned = 0
    /\ giLocals = NoVal

\* No rate spec is under construction.
RSOff ==
    /\ rsPc = "off"
    /\ rsCls = ""
    /\ rsWire = NoVal
    /\ rsObj = NoVal
    /\ rsErr = ""
    /\ rsPrev = NoVal

\* Before construction: the caller's arguments and the evaluation date are chosen.
GIIdle ==
    /\ giPc = "idle"
    /\ giIn \in {Some(inp) : inp \in GIInputs}
    /\ giToday \in {Some(today) : today \in Todays}
    /\ giObj = NoVal
    /\ giErr = ""
    /\ giAssigned = 0
    /\ giLocals = NoVal

\* GlobalInputs(**inp) on the evaluation date: returns the object or raises.
Outcome(r) ==
    /\ giObj' = r.obj
    /\ giErr' = r.err
    /\ giPc' = IF r.err = "" THEN "returned" ELSE "raised"

Construct ==
    /\ giPc = "idle"
    /\ Outcome(NewGlobalInputs(Val(giIn), Val(giToday)))
    /\ giLocals' = ValidatorLocals(Val(giIn), Val(giToday))
    /\ UNCHANGED <<giIn, giToday, giAssigned>>
    /\ UNCHANGED giRest

\* The fields a consumer may assign on a constructed model (no frozen config,
\* no validate_assignment: BaseModel.__setattr__ stores the value as given).
Assignable(obj) ==
    { [obj EXCEPT !.start_date = v] : v \in GivenDates \ {NoVal} }
      \cup { [obj EXCEPT !.end_date = v] : v \in GivenDates \ {NoVal} }

SetAttr ==
    /\ giPc = "returned"
    /\ giAssigned < MaxAssign
    /\ \E o \in Assignable(Val(giObj)) : giObj' = Some(o)
    /\ giAssigned' = giAssigned + 1
    /\ UNCHANGED <<giPc, giIn, giToday, giErr, giLocals>>
    /\ UNCHANGED giRest

\* Before validation: a class (or the union) and serialized input are chosen.
RSInput ==
    /\ rsPc = "input"
    /\ rsCls \in Classes
    /\ rsWire \in {Some(w) : w \in Wires}
    /\ rsObj = NoVal
    /\ rsErr = ""
    /\ rsPrev = NoVal

RSOutcome(r, built, rejected) ==
    /\ rsObj' = r.obj
    /\ rsErr' = r.err
    /\ rsPc' = IF r.err = "" THEN built ELSE rejected

\* cls(**wire), or the union's validation of wire.
ValidateRate ==
    /\ rsPc = "input"
    /\ RSOutcome(Validate(rsCls, Val(rsWire)), "built", "rejected")
    /\ UNCHANGED <<rsCls, rsWire, rsPrev>>
    /\ UNCHANGED rsRest

\* obj.model_dump()
DumpRate ==
    /\ rsPc = "built"
    /\ rsWire' = Some(model_dump(Val(rsObj)))
    /\ rsPrev' = rsObj
    /\ rsPc' = "dumped"
    /\ UNCHANGED <<rsCls, rsObj, rsErr>>
    /\ UNCHANGED rsRest

\* The dump is validated again as a RateSpec.
ReloadRate ==
    /\ rsPc = "dumped"
    /\ RSOutcome(NewRateSpec(Val(rsWire)), "reloaded", "reload_failed")
    /\ UNCHANGED <<rsCls, rsWire, rsPrev>>
    /\ UNCHANGED rsRest

\* No RentInputs is under construction.
RIOff ==
    /\ riPc = "off"
    /\ riIn = NoVal
    /\ riObj = NoVal
    /\ riErr = ""

\* Before construction: the caller's keyword arguments are chosen.
RIIdle ==
    /\ riPc = "idle"
    /\ riIn \in {Some(kw) : kw \in RentKwargs}
    /\ riObj = NoVal
    /\ riErr = ""

RIOutcome(r) ==
    /\ riObj' = r.obj
    /\ riErr' = r.err
    /\ riPc' = IF r.err = "" THEN "returned" ELSE "raised"

\* RentInputs(**kw): returns the object or raises.
ConstructRent ==
    /\ riPc = "idle"
    /\ RIOutcome(NewRentInputs(Val(riIn)))
    /\ UNCHANGED riIn
    /\ UNCHANGED riRest

\* No metric group is under construction.
PMOff ==
    /\ pmPc = "off"
    /\ pmCls = ""
    /\ pmIn = NoVal
    /\ pmObj = NoVal
    /\ pmErr = ""

\* Before construction: the class and the caller's keyword arguments are chosen.
PMIdle ==
    /\ pmPc = "idle"
    /\ \E call \in MetricCalls : pmCls = call[1] /\ pmIn = Some(call[2])
    /\ pmObj = NoVal
    /\ pmErr = ""

PMOutcome(r) ==
    /\ pmObj' = r.obj
    /\ pmErr' = r.err
    /\ pmPc' = IF r.err = "" THEN "returned" ELSE "raised"

\* HousingMetrics(**kw), HealthInsuranceMetrics(**kw) or CarMetrics(**kw).
ConstructMetrics ==
    /\ pmPc = "idle"
    /\ PMOutcome(NewMetrics(pmCls, Val(pmIn)))
    /\ UNCHANGED <<pmCls, pmIn>>
    /\ UNCHANGED pmRest

\* No store is in use.
STOff ==
    /\ fs = NoVal
    /\ svPc = NoVal
    /\ svUser = NoVal
    /\ svArg = NoVal
    /\ stSaved = NoVal
    /\ stLast = NoVal

\* The store's folder as it is found: per user no file or an invalid one, no
\* temporary files, every saver idle, nothing saved or returned yet.
STOpen ==
    /\ fs \in {f \in [Paths -> {NoVal, Some(InvalidFile)}] :
                    \A s \in Savers : f[TempName(s)] = NoVal}
    /\ svPc = [s \in Savers |-> "idle"]
    /\ svUser = [s \in Savers |-> ""]
    /\ svArg = [s \in Savers |-> NoVal]
    /\ stSaved = [u \in UserIds |-> NoVal]
    /\ stLast = Op("none", "", "", NoVal)

\* A store's folder is open.
STInUse == stLast # NoVal

\* save_profile(user_id, profile), first step: the temporary file is created
\* and the first part of the text is in it.
SaveBegin(s, user_id, profile) ==
    /\ STInUse
    /\ svPc[s] = "idle"
    /\ fs' = [fs EXCEPT ![WritePath(s, user_id)] =
                  Some(File("part", DumpProfile(profile)))]
    /\ svPc' = [svPc EXCEPT ![s] = "writing"]
    /\ svUser' = [svUser EXCEPT ![s] = user_id]
    /\ svArg' = [svArg EXCEPT ![s] = Some(profile)]
    /\ UNCHANGED <<stSaved, stLast>>
    /\ UNCHANGED stRest

\* save_profile, second step: the rest of the text is written and synced.
SaveWrite(s) ==
    /\ STInUse
    /\ svPc[s] = "writing"
    /\ fs' = [fs EXCEPT ![WritePath(s, svUser[s])] =
                  Some(File("full", DumpProfile(Val(svArg[s]))))]
    /\ svPc' = [svPc EXCEPT ![s] = "written"]
    /\ UNCHANGED <<svUser, svArg, stSaved, stLast>>
    /\ UNCHANGED stRest

\* save_profile, last step: the temporary file is moved over the target and
\* the call returns.
SaveReplace(s) ==
    /\ STInUse
    /\ svPc[s] = "written"
    /\ fs' = Replace(fs, WritePath(s, svUser[s]), svUser[s])
    /\ svPc' = [svPc EXCEPT ![s] = "idle"]
    /\ stSaved' = [stSaved EXCEPT ![svUser[s]] = svArg[s]]
    /\ stLast' = Op("save", svUser[s], "", NoVal)
    /\ UNCHANGED <<svUser, svArg>>
    /\ UNCHANGED stRest

\* save_profile interrupted or refused by the file system before the swap:
\* what was written so far stays where it was written, and the call raises.
SaveFail(s) ==
    /\ STInUse
    /\ svPc[s] \in {"writing", "written"}
    /\ fs' = IF WritePath(s, svUser[s]) = TempName(s)
             THEN [fs EXCEPT ![TempName(s)] = NoVal]
             ELSE fs
    /\ svPc' = [svPc EXCEPT ![s] = "idle"]
    /\ stLast' = Op("save", svUser[s], StoreError("ProfileWriteFailed"), NoVal)
    /\ UNCHANGED <<svUser, svArg, stSaved>>
    /\ UNCHANGED stRest

\* load_profile(user_id): None when there is no file, the validated profile
\* when there is one, the corruption error when it does not validate.
LoadProfile(user_id) ==
    /\ STInUse
    /\ stLast' =
          IF fs[user_id] = NoVal THEN Op("load", user_id, "", NoVal)
          ELSE Op("load", user_id, ParseProfile(Val(fs[user_id])).err,
                  ParseProfile(Val(fs[user_id])).obj)
    /\ UNCHANGED <<fs, svPc, svUser, svArg, stSaved>>
    /\ UNCHANGED stRest

\* delete_profile(user_id): removes the file, or raises not-found.
DeleteProfile(user_id) ==
    /\ STInUse
    /\ IF fs[user_id] = NoVal
       THEN /\ stLast' = Op("delete", user_id, StoreError("ProfileNotFound"), NoVal)
            /\ UNCHANGED <<fs, stSaved>>
       ELSE /\ fs' = [fs EXCEPT ![user_id] = NoVal]
            /\ stSaved' = [stSaved EXCEPT ![user_id] = NoVal]
            /\ stLast' = Op("delete", user_id, "", NoVal)
    /\ UNCHANGED <<svPc, svUser, svArg>>
    /\ UNCHANGED stRest

InitGlobal == GIIdle /\ RSOff /\ RIOff /\ PMOff /\ STOff

NextGlobal == Construct \/ SetAttr

SpecGlobal == InitGlobal /\ [][NextGlobal]_vars

InitRate == RSInput /\ GIOff /\ RIOff /\ PMOff /\ STOff

NextRate == ValidateRate \/ DumpRate \/ ReloadRate

SpecRate == InitRate /\ [][NextRate]_vars

InitRent == RIIdle /\ GIOff /\ RSOff /\ PMOff /\ STOff

NextRent == ConstructRent

SpecRent == InitRent /\ [][NextRent]_vars

InitMetrics == PMIdle /\ GIOff /\ RSOff /\ RIOff /\ STOff

NextMetrics == ConstructMetrics

SpecMetrics == InitMetrics /\ [][NextMetrics]_vars

InitStore == STOpen /\ GIOff /\ RSOff /\ RIOff /\ PMOff

NextStore ==
    \/ \E s \in Savers, u \in UserIds, p \in SaveProfiles : SaveBegin(s, u, p)
    \/ \E s \in Savers : SaveWrite(s)
    \/ \E s \in Savers : SaveReplace(s)
    \/ \E s \in Savers : SaveFail(s)
    \/ \E u \in UserIds : LoadProfile(u)
    \/ \E u \in UserIds : DeleteProfile(u)

SpecStore == InitStore /\ [][NextStore]_vars

Init == InitGlobal \/ InitRate \/ InitRent \/ InitMetrics \/ InitStore

Next == NextGlobal \/ NextRate \/ NextRent \/ NextMetrics \/ NextStore

Spec == Init /\ [][Next]_vars

\* ------------------------------------------------------------------ claims

GIBuilt == giPc \in {"returned", "raised"}

GIFresh == giPc = "returned" /\ giAssigned = 0

GIFailed == giPc = "raised" /\ giObj = NoVal /\ giErr # ""

\* The resolver's view of the input: current_age derived where the code derives it.
GIResolved == DeriveCurrentAge(Val(giIn), Val(giToday))

GIAgeMode == GIBuilt /\ Val(giIn).timeline_mode = "age"

GIDateMode == GIBuilt /\ Val(giIn).timeline_mode = "date"

\* The window an age-mode input resolves to (defined once birth_date and
\* current_age are there and the start age is not before the current age).
GIAgeWindowDefined ==
    /\ GIAgeMode
    /\ FieldsValid(Val(giIn))
    /\ ~IsNone(GIResolved.birth_date)
    /\ ~IsNone(GIResolved.current_age)
    /\ FGeq(ActualStartAge(GIResolved), Val(GIResolved.current_age))

GIAgeWindowStart ==
    AddRel(Val(giToday),
           AgeOffset(FSub(ActualStartAge(GIResolved), Val(GIResolved.current_age))))

GIAgeWindowEnd ==
    AddRel(Val(giToday),
           AgeOffset(FSub(ActualEndAge(GIResolved), Val(GIResolved.current_age))))

\* C1: every GlobalInputs that construction returns, in date mode and in age
\* mode, has start_date and end_date populated with start_date < end_date; an
\* input whose resolved dates are equal or reversed (an age-mode input whose
\* start and end ages truncate to the same calendar offset included) fails and
\* yields no object.
C1_WindowOrdered ==
    /\ GIFresh =>
         /\ ~IsNone(Val(giObj).start_date)
         /\ ~IsNone(Val(giObj).end_date)
         /\ DateLess(Val(Val(giObj).start_date), Val(Val(giObj).end_date))
    /\ (GIDateMode /\ ~IsNone(Val(giIn).start_date) /\ ~IsNone(Val(giIn).end_date)
          /\ ~DateLess(Val(Val(giIn).start_date), Val(Val(giIn).end_date)))
         => GIFailed
    /\ (GIAgeWindowDefined /\ ~DateLess(GIAgeWindowStart, GIAgeWindowEnd))
         => GIFailed

\* C1 witness: an age-mode object was returned, its window computed from ages.
C1_Witness ==
    /\ GIFresh
    /\ Val(giIn).timeline_mode = "age"
    /\ IsNone(Val(giIn).start_date)
    /\ Val(giObj).start_date = Some(GIAgeWindowStart)

\* An age-mode input with start age < end age whose two offsets truncate to the
\* same calendar date is rejected by the final check (reachability of C1's case).
C1_TruncatedCase ==
    /\ GIAgeWindowDefined
    /\ FLess(ActualStartAge(GIResolved), ActualEndAge(GIResolved))
    /\ GIAgeWindowStart = GIAgeWindowEnd
    /\ giErr = "end_not_after_start"

\* C2: in date mode, for field-valid inputs, construction succeeds iff both
\* dates are supplied and start_date < end_date, and fails otherwise.
C2_DateModeIff ==
    (GIDateMode /\ FieldsValid(Val(giIn))) =>
       LET inp == Val(giIn)
           ok == /\ ~IsNone(inp.start_date)
                 /\ ~IsNone(inp.end_date)
                 /\ DateLess(Val(inp.start_date), Val(inp.end_date))
       IN /\ (giPc = "returned") <=> ok
          /\ ~ok => GIFailed
          /\ GIFresh => /\ Val(giObj).start_date = inp.start_date
                        /\ Val(giObj).end_date = inp.end_date

\* C2 witness: a date-mode construction that succeeded, with birth_date given.
C2_Witness ==
    /\ GIFresh
    /\ Val(giIn).timeline_mode = "date"
    /\ ~IsNone(Val(giIn).birth_date)
    /\ DateLess(Val(Val(giIn).start_date), Val(Val(giIn).end_date))

\* C3: in age mode construction fails whenever the effective start age is less
\* than current_age, and whenever it is greater than or equal to the effective
\* end age, whatever the other fields are; no object is produced.
C3_AgeOrderEnforced ==
    (GIAgeMode /\ ~IsNone(GIResolved.current_age)) =>
       LET actual_start_age == ActualStartAge(GIResolved)
           actual_end_age == ActualEndAge(GIResolved)
       IN (\/ FLess(actual_start_age, Val(GIResolved.current_age))
           \/ FGeq(actual_start_age, actual_end_age)) => GIFailed

\* C3 witness: a field-valid age-mode input with birth_date, whose start age
\* precedes the end age but lies before the current age, was rejected.
C3_Witness ==
    /\ GIAgeMode
    /\ FieldsValid(Val(giIn))
    /\ ~IsNone(GIResolved.birth_date)
    /\ ~IsNone(GIResolved.current_age)
    /\ FLess(ActualStartAge(GIResolved), Val(GIResolved.current_age))
    /\ FLess(ActualStartAge(GIResolved), ActualEndAge(GIResolved))
    /\ giErr = "start_age_before_current_age"

C5_CurrentAgeNonNegative ==
    GIFresh => (IsNone(Val(giObj).current_age) \/ ~FIsNeg(Val(Val(giObj).current_age)))

\* C6: once the constructor has returned, no operation changes a field of the
\* object.
C6_Immutable == [][giPc = "returned" => giObj' = giObj]_vars

RSValidated == rsPc \in {"built", "rejected"}

RSRejected == rsPc = "rejected" /\ rsObj = NoVal /\ rsErr # ""

\* The tag of the class an object belongs to, read off its fields.
ShapeTag(obj) ==
    IF "annual" \in DOMAIN obj THEN "value"
    ELSE IF "by_year" \in DOMAIN obj THEN "schedule"
    ELSE "provider"

\* C7: RateValue(annual = a) succeeds iff -1.0 <= a <= 2.0, both bounds
\* included, and fails with a validation error for every other a.
C7_AnnualRange ==
    (RSValidated /\ rsCls = "RateValue" /\ KindValid(Val(rsWire), "value")
       /\ ~IsNone(Val(rsWire).annual)) =>
       LET a == Val(Val(rsWire).annual)
       IN /\ (rsPc = "built") <=> (a >= AnnualMin /\ a <= AnnualMax)
          /\ rsPc = "built" => Val(rsObj) = [kind |-> "value", annual |-> a]
          /\ rsPc # "built" => RSRejected

\* C7 witness: the upper bound itself was accepted.
C7_Witness ==
    /\ rsPc = "built"
    /\ rsCls = "RateValue"
    /\ Val(rsWire).annual = Some(AnnualMax)
    /\ Val(rsObj).annual = AnnualMax

\* The fields of the shape a tag names, and those of the other shapes.
HasOwnField(w, tag) ==
    IF tag = "value" THEN ~IsNone(w.annual)
    ELSE IF tag = "schedule" THEN ~IsNone(w.by_year)
    ELSE ~IsNone(w.source) \/ ~IsNone(w.param)

HasForeignField(w, tag) == \E t \in Tags \ {tag} : HasOwnField(w, t)

RSDecoded == RSValidated /\ rsCls = "RateSpec"

\* C8 as stated: decoding selects the shape of the tag; input whose tag is
\* unknown or missing, or whose fields belong to a different shape than its
\* tag, is rejected.
C8_ForeignFieldsRejected ==
    RSDecoded =>
       LET w == Val(rsWire)
       IN /\ (IsNone(w.kind) \/ Val(w.kind) \notin Tags) => RSRejected
          /\ (~IsNone(w.kind) /\ Val(w.kind) \in Tags
                /\ HasForeignField(w, Val(w.kind)) /\ ~HasOwnField(w, Val(w.kind)))
               => RSRejected
          /\ rsPc = "built" => Val(rsObj).kind = Val(w.kind)

\* C8 amended: decoding selects exactly the shape whose tag equals the input's
\* kind and validates against that shape only (the outcome is that of the
\* tagged class on the same input); a missing or unknown tag is rejected; input
\* lacking a required field of its tagged shape (by_year, source) is rejected
\* whatever foreign fields it carries; foreign fields are ignored, so a "value"
\* input without annual decodes to RateValue with the default annual; the
\* result is never of another shape than the tag's.
C8_TagSelectsShape ==
    RSDecoded =>
       LET w == Val(rsWire)
       IN /\ (IsNone(w.kind) \/ Val(w.kind) \notin Tags) => RSRejected
          /\ (~IsNone(w.kind) /\ Val(w.kind) \in Tags) =>
               /\ rsObj = NewTagged(Val(w.kind), w).obj
               /\ rsErr = NewTagged(Val(w.kind), w).err
               /\ rsPc = "built" =>
                    /\ Val(rsObj).kind = Val(w.kind)
                    /\ ShapeTag(Val(rsObj)) = Val(w.kind)
          /\ (w.kind = Some("schedule") /\ IsNone(w.by_year)) => RSRejected
          /\ (w.kind = Some("provider") /\ IsNone(w.source)) => RSRejected
          /\ (w.kind = Some("value") /\ IsNone(w.annual)) =>
               rsObj = Some([kind |-> "value", annual |-> AnnualDefault])

\* C8 witness: a "value" input carrying only a schedule's and a provider's
\* fields was decoded, as a RateValue.
C8_Witness ==
    /\ RSDecoded
    /\ rsPc = "built"
    /\ Val(rsWire).kind = Some("value")
    /\ IsNone(Val(rsWire).annual)
    /\ ~IsNone(Val(rsWire).by_year)
    /\ ~IsNone(Val(rsWire).source)
    /\ ShapeTag(Val(rsObj)) = "value"

\* C9 as stated: RateProvider with an empty source string is rejected.
C9_EmptySourceRejected ==
    (RSValidated /\ rsCls = "RateProvider" /\ Val(rsWire).source = Some(""))
       => RSRejected

\* C9 amended: RateProvider accepts every string as source, the empty string
\* included; it is rejected only when source is missing (or kind is not
\* "provider").
C9_AnySourceAccepted ==
    (RSValidated /\ rsCls = "RateProvider" /\ KindValid(Val(rsWire), "provider")) =>
       /\ (rsPc = "built") <=> ~IsNone(Val(rsWire).source)
       /\ rsPc = "built" => Val(rsObj).source = Val(Val(rsWire).source)
       /\ rsPc # "built" => RSRejected

\* C9 witness: a RateProvider with source "" was built.
C9_Witness ==
    /\ rsPc = "built"
    /\ rsCls = "RateProvider"
    /\ Val(rsWire).source = Some("")
    /\ Val(rsObj).source = ""

\* C10: for every valid rate spec of any of the three shapes, the dump carries
\* the kind tag spelled as the shape's declared tag, and validating the dump as
\* a RateSpec yields an equal object of the same shape.
C10_RoundTrip ==
    /\ rsPc = "dumped" =>
         /\ Val(rsWire).kind = Some(ShapeTag(Val(rsPrev)))
         /\ Val(rsWire).kind = Some(Val(rsPrev).kind)
    /\ rsPc \in {"reloaded", "reload_failed"} =>
         /\ rsPc = "reloaded"
         /\ rsObj = rsPrev
         /\ ShapeTag(Val(rsObj)) = ShapeTag(Val(rsPrev))

\* C10 witness: a RateValue built from annual alone came back equal, tag "value".
C10_Witness ==
    /\ rsPc = "reloaded"
    /\ rsCls = "RateValue"
    /\ rsObj = rsPrev
    /\ Val(rsWire).kind = Some("value")
    /\ Val(rsObj).annual = AnnualMin

RIBuilt == riPc = "returned"

RIFailed == riPc = "raised"

RIDone == RIBuilt \/ RIFailed

RIGiven(field) == ~IsNone(Val(riIn)[field])

RIValue(field) == Val(Val(riIn)[field])

\* What the caller passed as a growth field is a valid RateSpec: a known tag
\* with the fields of its shape in range.
RIGrowthAcceptable(field) ==
    \/ ~RIGiven(field)
    \/ /\ ~IsNone(RIValue(field).kind)
       /\ \/ /\ Val(RIValue(field).kind) = "value"
             /\ \/ IsNone(RIValue(field).annual)
                \/ /\ Val(RIValue(field).annual) >= -1000
                   /\ Val(RIValue(field).annual) <= 2000
          \/ /\ Val(RIValue(field).kind) = "schedule"
             /\ ~IsNone(RIValue(field).by_year)
          \/ /\ Val(RIValue(field).kind) = "provider"
             /\ ~IsNone(RIValue(field).source)

\* C11: RentInputs construction succeeds exactly when base_monthly_rent is
\* supplied and strictly positive, roommates is an integer from 0 to 10,
\* roommate_contribution_percent lies in [0, 1] with both ends allowed,
\* renters_insurance_monthly and utilities_monthly are not negative, and each
\* of the three growth fields is a valid RateSpec.
C11_RentAcceptedIff ==
    RIDone =>
        (RIBuilt <=>
            /\ RIGiven("base_monthly_rent") /\ RIValue("base_monthly_rent") > 0
            /\ RIGiven("roommates") =>
                  RIValue("roommates") \in {1000 * n : n \in 0..10}
            /\ RIGiven("roommate_contribution_percent") =>
                  RIValue("roommate_contribution_percent") \in 0..1000
            /\ RIGiven("renters_insurance_monthly") =>
                  RIValue("renters_insurance_monthly") >= 0
            /\ RIGiven("utilities_monthly") => RIValue("utilities_monthly") >= 0
            /\ RIGrowthAcceptable("rent_growth")
            /\ RIGrowthAcceptable("insurance_growth")
            /\ RIGrowthAcceptable("utilities_growth"))

\* Roommates pay the whole rent: the upper end of the percentage is accepted.
C11_Witness ==
    /\ RIBuilt
    /\ RIGiven("roommate_contribution_percent")
    /\ RIValue("roommate_contribution_percent") = 1000
    /\ RIGiven("roommates") /\ RIValue("roommates") = 10000
    /\ RIGiven("rent_growth")

\* C12: a RentInputs built from base_monthly_rent alone has roommates 0,
\* contribution 0.0, insurance 0.0, utilities 0.0, and growth specs that are
\* RateValue with annual 0.05 (rent), 0.03 (insurance) and 0.025 (utilities);
\* each growth field falls back to its own default whatever the others are.
C12_Defaults ==
    RIBuilt =>
        /\ ~RIGiven("roommates") => Val(riObj).roommates = 0
        /\ ~RIGiven("roommate_contribution_percent") =>
              Val(riObj).roommate_contribution_percent = 0
        /\ ~RIGiven("renters_insurance_monthly") =>
              Val(riObj).renters_insurance_monthly = 0
        /\ ~RIGiven("utilities_monthly") => Val(riObj).utilities_monthly = 0
        /\ ~RIGiven("rent_growth") =>
              Val(riObj).rent_growth = [kind |-> "value", annual |-> 50]
        /\ ~RIGiven("insurance_growth") =>
              Val(riObj).insurance_growth = [kind |-> "value", annual |-> 30]
        /\ ~RIGiven("utilities_growth") =>
              Val(riObj).utilities_growth = [kind |-> "value", annual |-> 25]

\* A custom rent growth next to defaulted insurance and utilities growth.
C12_Witness ==
    /\ RIBuilt
    /\ RIGiven("rent_growth")
    /\ Val(riObj).rent_growth = [kind |-> "value", annual |-> 70]
    /\ ~RIGiven("insurance_growth")
    /\ ~RIGiven("utilities_growth")
    /\ ~RIGiven("roommates")

PMBuilt == pmPc = "returned"

PMFailed == pmPc = "raised"

PMDone == PMBuilt \/ PMFailed

\* The mode field and the companion payment field of the group, as passed.
PMModeArg ==
    IF pmCls = "HousingMetrics" THEN Val(pmIn).housing_kind
    ELSE IF pmCls = "HealthInsuranceMetrics" THEN Val(pmIn).payer
    ELSE Val(pmIn).status

PMPaymentArg ==
    IF pmCls = "HousingMetrics" THEN Val(pmIn).housing_payment_monthly
    ELSE IF pmCls = "HealthInsuranceMetrics" THEN Val(pmIn).health_premium_monthly
    ELSE Val(pmIn).monthly_car_payment

\* The selected mode: the one passed, or the class's default.
PMMode ==
    IF ~IsNone(PMModeArg) THEN Val(PMModeArg)
    ELSE IF pmCls = "HousingMetrics" THEN "rent"
    ELSE IF pmCls = "HealthInsuranceMetrics" THEN "parents"
    ELSE "parents_paying"

PMModeKnown ==
    PMMode \in (IF pmCls = "HousingMetrics" THEN {"none", "rent", "mortgage"}
                ELSE IF pmCls = "HealthInsuranceMetrics"
                THEN {"none", "self_pay", "parents"}
                ELSE {"none", "paid_off", "parents_paying", "monthly_payment"})

PMPaying == PMMode \in {"rent", "mortgage", "self_pay", "monthly_payment"}

\* Every field besides the mode and its companion payment is in range.
PMOthersInRange ==
    pmCls = "CarMetrics" =>
        /\ IsNone(Val(pmIn).avg_price_per_gallon)
              \/ Val(Val(pmIn).avg_price_per_gallon) >= 0
        /\ IsNone(Val(pmIn).miles_per_month) \/ Val(Val(pmIn).miles_per_month) >= 0
        /\ IsNone(Val(pmIn).miles_per_gallon) \/ Val(Val(pmIn).miles_per_gallon) >= 1

PMCase == PMDone /\ PMModeKnown /\ PMOthersInRange

\* C13 as stated: with all other fields in range, construction of a metric
\* group fails if and only if the selected mode demands payment and the
\* companion payment field is absent or not strictly positive.
C13_FailsIffPaymentMissing ==
    PMCase =>
        (PMFailed <=> (PMPaying /\ (IsNone(PMPaymentArg) \/ Val(PMPaymentArg) <= 0)))

\* C13: with all other fields in range, construction of a metric group fails
\* if and only if the companion payment field is present and negative, or the
\* selected mode demands payment and the companion is absent or not strictly
\* positive; under every non-paying mode construction succeeds with the
\* companion absent.
C13_FailsIffPaymentUnusable ==
    PMCase =>
        /\ PMFailed <=>
              \/ ~IsNone(PMPaymentArg) /\ Val(PMPaymentArg) < 0
              \/ PMPaying /\ (IsNone(PMPaymentArg) \/ Val(PMPaymentArg) <= 0)
        /\ (~PMPaying /\ IsNone(PMPaymentArg)) => PMBuilt

\* A paying mode refused for a zero payment.
C13_Witness ==
    /\ PMFailed
    /\ pmErr = "payment_required"
    /\ pmCls = "HealthInsuranceMetrics"
    /\ PMMode = "self_pay"
    /\ PMPaymentArg = Some(0)

\* A step in which load_profile(user_id) returns or raises.
LoadStep(user_id) ==
    /\ stLast'.op = "load"
    /\ stLast'.user = user_id
    /\ UNCHANGED <<fs, svPc, stSaved>>

\* A step in which delete_profile(user_id) returns or raises.
DeleteStep(user_id) ==
    /\ stLast'.op = "delete"
    /\ stLast'.user = user_id
    /\ UNCHANGED svPc

\* A step in which saver s gives up its save_profile call with an error.
FailStep(s) ==
    /\ svPc[s] \in {"writing", "written"}
    /\ svPc'[s] = "idle"
    /\ stLast'.op = "save"
    /\ stLast'.err # ""

\* C14: whatever saves and deletes came before, load(user_id) returns a
\* profile equal to the one given to the most recent successful save of that
\* identifier, unless a delete of the identifier followed that save.
C14_LoadReturnsLastSave ==
    [][\A u \in UserIds :
          (LoadStep(u) /\ stSaved[u] # NoVal) =>
              (stLast'.err = "" /\ stLast'.result = stSaved[u])]_vars

\* A load that returns the renter's profile, saved over an invalid file or
\* over the other profile.
C14_Witness ==
    /\ STInUse
    /\ stLast.op = "load"
    /\ stLast.err = ""
    /\ stLast.result # NoVal
    /\ Val(stLast.result).has_renters_insurance = Some(TRUE)
    /\ stSaved[stLast.user] = stLast.result

\* C15: for an identifier with no stored record, load returns absent without
\* an error, delete fails with the not-found storage error and leaves the
\* store unchanged; both differ from the corruption error that a load of
\* existing invalid data raises.
C15_AbsentOutcomes ==
    [][\A u \in UserIds :
          /\ (LoadStep(u) /\ fs[u] = NoVal) =>
                (stLast'.err = "" /\ stLast'.result = NoVal)
          /\ (DeleteStep(u) /\ fs[u] = NoVal) =>
                (stLast'.err = "ProfileNotFound" /\ fs' = fs)
          /\ (LoadStep(u) /\ fs[u] = Some(InvalidFile)) =>
                stLast'.err = "ProfileCorrupt"]_vars

\* C16: a load never sees a partly written record, only absent, the complete
\* previous record or the complete new one; after concurrent saves to one
\* identifier the stored record is in full the profile of the save that
\* finished last; a failed save leaves the stored record as it was.
C16_SaveAtomic ==
    /\ [](STInUse =>
            \A u \in UserIds :
                /\ fs[u] # NoVal => Val(fs[u]).written = "full"
                /\ stSaved[u] # NoVal =>
                      (fs[u] # NoVal /\ ParseProfile(Val(fs[u])).obj = stSaved[u]))
    /\ [][/\ \A u \in UserIds :
               LoadStep(u) =>
                   \/ stLast'.err = "" /\ stLast'.result = NoVal
                   \/ stLast'.err = "" /\ stLast'.result \in
                                             {Some(p) : p \in SaveProfiles}
                   \/ fs[u] = Some(InvalidFile)
          /\ \A s \in Savers :
               FailStep(s) => \A u \in UserIds : fs'[u] = fs[u]]_vars

\* Two savers write different profiles for one identifier: one has finished
\* and its profile is what a load returned, the other is still about to swap.
C16_Witness ==
    /\ STInUse
    /\ svPc[1] = "written"
    /\ svPc[2] = "idle"
    /\ svUser[1] = svUser[2]
    /\ svArg[1] # svArg[2]
    /\ stSaved[svUser[2]] = svArg[2]
    /\ stLast = Op("load", svUser[2], "", svArg[2])

\* The validator computed both effective ages for the input.
GIAgesComputed == giPc \in {"returned", "raised"} /\ giLocals # NoVal

\* The outcome of constructing `inp` on the evaluation date, reduced to what a
\* caller can tell apart: the error, and the resolved dates on success.
GIResult(inp) ==
    [err |-> NewGlobalInputs(inp, Val(giToday)).err,
     dates |-> IF NewGlobalInputs(inp, Val(giToday)).err = ""
               THEN <<Val(NewGlobalInputs(inp, Val(giToday)).obj).start_date,
                      Val(NewGlobalInputs(inp, Val(giToday)).obj).end_date>>
               ELSE <<>>]

\* The recorded outcome, reduced in the same way.
GIRecorded ==
    [err |-> giErr,
     dates |-> IF giPc = "returned"
               THEN <<Val(giObj).start_date, Val(giObj).end_date>>
               ELSE <<>>]

\* C17: in age mode each effective age is years + months/12 when the years
\* and months fields are both given, else the years field alone when given,
\* else the fallback: current_age for the start; 67 for the end when
\* end_option is retirement and 80 otherwise, end_option absent included. A
\* months field given without its years field changes nothing.
C17_AgePrecedence ==
    (GIAgesComputed /\ giAssigned = 0) =>
        /\ Val(giLocals).actual_start_age =
              (IF Val(giIn).start_age_years = NoVal THEN Val(GIResolved.current_age)
               ELSE IF Val(giIn).start_age_months = NoVal
               THEN FInt(Val(Val(giIn).start_age_years))
               ELSE FAdd(FInt(Val(Val(giIn).start_age_years)),
                         FDiv12(Val(Val(giIn).start_age_months))))
        /\ Val(giLocals).actual_end_age =
              (IF Val(giIn).end_age_years = NoVal
               THEN (IF Val(giIn).end_option = "retirement" THEN FInt(67) ELSE FInt(80))
               ELSE IF Val(giIn).end_age_months = NoVal
               THEN FInt(Val(Val(giIn).end_age_years))
               ELSE FAdd(FInt(Val(Val(giIn).end_age_years)),
                         FDiv12(Val(Val(giIn).end_age_months))))
        /\ Val(giIn).start_age_years = NoVal =>
              GIRecorded = GIResult([Val(giIn) EXCEPT !.start_age_months = NoVal])
        /\ Val(giIn).end_age_years = NoVal =>
              GIRecorded = GIResult([Val(giIn) EXCEPT !.end_age_months = NoVal])

\* Months without years on both sides and no end_option: the window runs from
\* the current age to 80.
C17_Witness ==
    /\ giPc = "returned"
    /\ giAssigned = 0
    /\ giLocals # NoVal
    /\ Val(giIn).start_age_years = NoVal /\ Val(giIn).start_age_months # NoVal
    /\ Val(giIn).end_age_years = NoVal /\ Val(giIn).end_age_months # NoVal
    /\ Val(giIn).end_option = None
    /\ Val(giLocals).actual_end_age = FInt(80)

\* The whole months an age of a whole number of months lies after the
\* current age (ages are twelfths of a year: A counts the twelfths).
GIMonthsAfterCurrent(age) == age.A - Val(GIResolved.current_age).A

\* C18: in age mode, with all ages whole numbers of months, the resolved
\* start_date and end_date lie exactly 12 * d months after the evaluation
\* date, d being the effective age minus current_age; so start_age_years = Y
\* with current_age <= Y gives a start_date 12 * (Y - current_age) months
\* after the evaluation date.
C18_WholeMonthsExact ==
    (giPc = "returned" /\ giAssigned = 0 /\ giLocals # NoVal) =>
        /\ Val(giObj).start_date =
              Some(AddRel(Val(giToday),
                          SetMonths(GIMonthsAfterCurrent(Val(giLocals).actual_start_age))))
        /\ Val(giObj).end_date =
              Some(AddRel(Val(giToday),
                          SetMonths(GIMonthsAfterCurrent(Val(giLocals).actual_end_age))))

\* The whole months from birth_date to the evaluation date, counted toward
\* zero: n months after birth_date is not past the evaluation date, one more is.
GIMonthsElapsed(birth_date, today) ==
    CHOOSE n \in (12 * (today.y - birth_date.y) - 12)..(12 * (today.y - birth_date.y) + 12) :
        IF DateGeq(today, birth_date)
        THEN /\ n >= 0
             /\ DateGeq(today, AddRel(birth_date, SetMonths(n)))
             /\ DateLess(today, AddRel(birth_date, SetMonths(n + 1)))
        ELSE /\ n <= 0
             /\ DateGeq(AddRel(birth_date, SetMonths(n)), today)
             /\ DateLess(AddRel(birth_date, SetMonths(n - 1)), today)

\* years + months / 12 for a count of whole months.
GIAgeOfMonths(n) ==
    IF n >= 0 THEN FAdd(FInt(n \div 12), FDiv12(n % 12))
    ELSE FAdd(FInt(-((-n) \div 12)), FDiv12(-((-n) % 12)))

\* C19: when current_age is absent and birth_date is present, validation sets
\* current_age to the whole years plus whole months / 12 elapsed between
\* birth_date and the evaluation date, in date mode as in age mode; a
\* current_age the caller supplies is never overwritten, whatever birth_date is.
C19_CurrentAgeDerived ==
    (giPc = "returned" /\ giAssigned = 0) =>
        IF Val(giIn).current_age # NoVal
        THEN Val(giObj).current_age = Val(giIn).current_age
        ELSE IF Val(giIn).birth_date # NoVal
        THEN Val(giObj).current_age =
                 Some(GIAgeOfMonths(GIMonthsElapsed(Val(Val(giIn).birth_date),
                                                    Val(giToday))))
        ELSE Val(giObj).current_age = NoVal

\* Date mode, no current_age given: 1994-06-15 seen from 2025-01-31 is 30
\* years and 7 months.
C19_Witness ==
    /\ giPc = "returned"
    /\ giAssigned = 0
    /\ Val(giIn).timeline_mode = "date"
    /\ Val(giIn).current_age = NoVal
    /\ Val(giIn).birth_date = Some(Date(1994, 6, 15))
    /\ Val(giToday) = Date(2025, 1, 31)
    /\ Val(giObj).current_age = Some(FAdd(FInt(30), FDiv12(7)))

\* The input that agrees with the constructed one in everything but
\* birth_date, start_date and end_date, with a fixed birth_date and no dates
\* passed: one representative for all inputs that differ in those three only.
GIRepresentative ==
    [Val(giIn) EXCEPT !.birth_date = Some(Date(1994, 6, 15)),
                      !.start_date = NoVal, !.end_date = NoVal]

\* C20: on one evaluation date, age-mode inputs that supply the same
\* current_age, age fields and end_option but differ in their (present)
\* birth_date and in the start_date and end_date the caller passed have the
\* same outcome: all fail, or all succeed with the same resolved start_date
\* and end_date. Every such input has the outcome of its representative.
C20_BirthDateAndDatesIgnored ==
    (/\ giPc \in {"returned", "raised"}
     /\ giAssigned = 0
     /\ Val(giIn).timeline_mode = "age"
     /\ Val(giIn).current_age # NoVal
     /\ Val(giIn).birth_date # NoVal) =>
        GIRecorded = GIResult(GIRepresentative)

\* An age-mode input with current_age, a future birth_date and supplied dates
\* resolved to dates other than the supplied ones.
C20_Witness ==
    /\ giPc = "returned"
    /\ giAssigned = 0
    /\ Val(giIn).timeline_mode = "age"
    /\ Val(giIn).current_age = Some(AgeOf(30, 7))
    /\ Val(giIn).birth_date = Some(Date(2026, 3, 1))
    /\ Val(giIn).start_date = Some(Date(2030, 3, 1))
    /\ Val(giIn).end_date = Some(Date(2025, 3, 1))
    /\ Val(giObj).start_date # Val(giIn).start_date
    /\ Val(giObj).end_date # Val(giIn).end_date

====
